---- MODULE Spec2Model ----
(***************************************************************************)
(* A model of the geneva crate: packet-manipulation strategies made of     *)
(* triggers and action trees, their evaluation (Strategy::apply,           *)
(* Action::run), their canonical text (Display) and the construction of a  *)
(* Strategy from the parse tree of a strategy text (parse_strategy).       *)
(*                                                                         *)
(* Text is modelled by TLA+ strings, built by concatenation exactly as the *)
(* Display implementations build it.  A Rust call has three outcomes: it   *)
(* returns Ok(v), it returns Err(e), or it panics (unimplemented!(),       *)
(* unreachable!()).                                                        *)
(***************************************************************************)
EXTENDS Integers, Sequences, FiniteSets, TLC

VARIABLES
    call,       \* the most recent call and what it returned
    strategy,   \* the Strategy value the program holds
    trigger,    \* the trigger a caller invokes matches() on
    fired       \* how many matches() calls on `trigger` have returned true

vars == <<call, strategy, trigger, fired>>

-----------------------------------------------------------------------------
(* Bounds of the model.                                                    *)

\* Largest number of composite nodes (duplicate, fragment, tamper) in an
\* action tree handed to run() or to_string().
MaxNodes == 2

\* Longest packet, in bytes.
MaxPktLen == 1

\* Longest forest a caller builds for one direction.
MaxForest == 2

\* Largest gas a trigger is constructed with, or written with in a text.
MaxGas == 2

\* Largest number of duplicate/fragment/tamper nodes in one action of a
\* strategy text.
MaxParseNodes == 2

\* Largest number of action trees in a strategy text with several of them.
MaxTrees == 2

-----------------------------------------------------------------------------
(* Outcomes of a call.                                                     *)

Ok(v) == [kind |-> "Ok", val |-> v, err |-> ""]

Err(e) == [kind |-> "Err", val |-> <<>>, err |-> e]

\* unimplemented!() and unreachable!() abort the call.
Panic(msg) == [kind |-> "Panic", val |-> <<>>, err |-> msg]

-----------------------------------------------------------------------------
(* Packet: an owned byte buffer.                                           *)

Byte == {0, 1}

RECURSIVE BytesUpTo(_)
BytesUpTo(n) ==
    IF n = 0 THEN {<<>>}
    ELSE LET shorter == BytesUpTo(n - 1)
         IN  shorter \cup {Append(s, b) : s \in {t \in shorter : Len(t) = n - 1}, b \in Byte}

PacketNew(bytes) == [data |-> bytes]

AsSlice(pkt) == pkt.data

\* Clone of a packet: a new packet holding a copy of the bytes.
PacketClone(pkt) == [data |-> pkt.data]

Packets == {PacketNew(b) : b \in BytesUpTo(MaxPktLen)}

-----------------------------------------------------------------------------
(* GenevaAction: the tree of actions.                                      *)

SendAction == [kind |-> "Send"]

DropAction == [kind |-> "Drop"]

DuplicateActionNew(left, right) ==
    [kind |-> "Duplicate", left |-> left, right |-> right]

FragmentActionNew(protocol, fragment_size, in_order, overlap, left_action, right_action) ==
    [kind |-> "Fragment", protocol |-> protocol, fragment_size |-> fragment_size,
     in_order |-> in_order, overlap |-> overlap,
     left_action |-> left_action, right_action |-> right_action]

TamperMode == {"Replace", "Corrupt", "Add"}

TamperActionNew(protocol, field, new_value, mode, action) ==
    [kind |-> "Tamper", protocol |-> protocol, field |-> field,
     new_value |-> new_value, mode |-> mode, action |-> action]

\* The action trees with exactly n composite nodes.
RECURSIVE ActionsOfSize(_)
ActionsOfSize(n) ==
    IF n = 0 THEN {SendAction, DropAction}
    ELSE UNION {
            {DuplicateActionNew(l, r) :
                l \in ActionsOfSize(i), r \in ActionsOfSize(n - 1 - i)}
            \cup
            {FragmentActionNew(6, 12, o, 0, l, r) :
                o \in BOOLEAN, l \in ActionsOfSize(i), r \in ActionsOfSize(n - 1 - i)}
            : i \in 0..(n - 1)}
         \cup
         {TamperActionNew("TCP", "flags", "SA", m, a) :
            m \in TamperMode, a \in ActionsOfSize(n - 1)}

Actions == UNION {ActionsOfSize(n) : n \in 0..MaxNodes}

-----------------------------------------------------------------------------
(* Action::run                                                             *)

RECURSIVE GenevaActionRun(_, _)

\* A send that loses its packet.
SendRunLosesPacket(a, pkt) == Ok(<<>>)

SendActionRun(a, pkt) == Ok(<<pkt>>)

\* A drop that lets its packet through.
DropRunKeepsPacket(a, pkt) == Ok(<<pkt>>)

DropActionRun(a, pkt) == Ok(<<>>)

\* A duplicate that never appends what the right subtree returned.
DuplicateRunForgetsRight(a, pkt) ==
    LET dupe == PacketNew(AsSlice(pkt))
        lpackets == GenevaActionRun(a.left, pkt)
    IN  IF lpackets.kind # "Ok" THEN lpackets
        ELSE LET rpackets == GenevaActionRun(a.right, dupe)
             IN  IF rpackets.kind # "Ok" THEN rpackets
                 ELSE Ok(lpackets.val)

DuplicateActionRun(a, pkt) ==
    LET dupe == PacketNew(AsSlice(pkt))
        lpackets == GenevaActionRun(a.left, pkt)
    IN  IF lpackets.kind # "Ok" THEN lpackets
        ELSE LET rpackets == GenevaActionRun(a.right, dupe)
             IN  IF rpackets.kind # "Ok" THEN rpackets
                 ELSE Ok(lpackets.val \o rpackets.val)

FragmentActionRun(a, pkt) == Panic("not implemented")

TamperActionRun(a, pkt) == Panic("not implemented")

GenevaActionRun(a, pkt) ==
    CASE a.kind = "Send" -> SendActionRun(a, pkt)
      [] a.kind = "Drop" -> DropActionRun(a, pkt)
      [] a.kind = "Duplicate" -> DuplicateActionRun(a, pkt)
      [] a.kind = "Fragment" -> FragmentActionRun(a, pkt)
      [] a.kind = "Tamper" -> TamperActionRun(a, pkt)

-----------------------------------------------------------------------------
(* Display of actions                                                      *)

RECURSIVE GenevaActionDisplay(_)

SendActionDisplay(a) == ""

DropActionDisplay(a) == "drop"

\* A duplicate that always writes its argument list.
DuplicateDisplayNoElision(a) ==
    "duplicate(" \o GenevaActionDisplay(a.left) \o "," \o GenevaActionDisplay(a.right) \o ")"

DuplicateActionDisplay(a) ==
    LET left == GenevaActionDisplay(a.left)
        right == GenevaActionDisplay(a.right)
        args == IF Len(left) + Len(right) = 0 THEN ""
                ELSE "(" \o left \o "," \o right \o ")"
    IN  "duplicate" \o args

FragmentActionDisplay(a) ==
    LET left == GenevaActionDisplay(a.left_action)
        right == GenevaActionDisplay(a.right_action)
        args == IF Len(left) + Len(right) = 0 THEN ""
                ELSE "(" \o left \o "," \o right \o ")"
        in_order == IF a.in_order THEN "True" ELSE "False"
    IN  "fragment{" \o ToString(a.protocol) \o ":" \o ToString(a.fragment_size)
            \o ":" \o in_order \o "}" \o args

TamperModeDisplay(mode) ==
    CASE mode = "Replace" -> "replace"
      [] mode = "Corrupt" -> "corrupt"
      [] mode = "Add" -> "add"

TamperActionDisplay(a) ==
    LET new_value == IF a.mode = "Replace" THEN ":" \o a.new_value ELSE ""
    IN  "tamper{" \o a.protocol \o ":" \o a.field \o ":" \o TamperModeDisplay(a.mode)
            \o new_value \o "}(" \o GenevaActionDisplay(a.action) \o ",)"

GenevaActionDisplay(a) ==
    CASE a.kind = "Send" -> SendActionDisplay(a)
      [] a.kind = "Drop" -> DropActionDisplay(a)
      [] a.kind = "Duplicate" -> DuplicateActionDisplay(a)
      [] a.kind = "Fragment" -> FragmentActionDisplay(a)
      [] a.kind = "Tamper" -> TamperActionDisplay(a)

-----------------------------------------------------------------------------
(* The Strategy a program holds before anything is parsed or assigned.     *)

None == [some |-> FALSE, forest |-> <<>>]

Some(forest) == [some |-> TRUE, forest |-> forest]

StrategyDefault == [outbound |-> None, inbound |-> None]

-----------------------------------------------------------------------------
(* The action engine: a caller runs an action tree on a packet, or renders *)
(* an action tree.                                                         *)

NoCall == [op |-> "none"]

InitAction ==
    /\ call = NoCall
    /\ strategy = StrategyDefault
    /\ trigger = <<>>
    /\ fired = 0

\* The caller takes the value the call returned; the program is between calls.
Return ==
    /\ call.op # "none"
    /\ call' = NoCall
    /\ UNCHANGED <<strategy, trigger, fired>>

RunAction(a, pkt) ==
    /\ call.op = "none"
    /\ call' = [op |-> "run", action |-> a, pkt |-> pkt,
                result |-> GenevaActionRun(a, pkt)]
    /\ UNCHANGED <<strategy, trigger, fired>>

ToStringAction(a) ==
    /\ call.op = "none"
    /\ call' = [op |-> "to_string", action |-> a, text |-> GenevaActionDisplay(a)]
    /\ UNCHANGED <<strategy, trigger, fired>>

\* Calls are synchronous: a new one starts only between calls.
NextAction ==
    \/ /\ call.op = "none"
       /\ \E a \in Actions, pkt \in Packets : RunAction(a, pkt)
    \/ /\ call.op = "none"
       /\ \E a \in Actions : ToStringAction(a)
    \/ Return

SpecAction == InitAction /\ [][NextAction]_vars

-----------------------------------------------------------------------------
(* Claims about the action engine, checked under SpecAction.               *)

\* C4: Duplicate(left, right).run(p) is left.run(p) followed by
\* right.run(p'), p' a copy equal to p: when both subtrees return, the
\* result is the left packets, in their order, then the right packets, in
\* theirs; when a subtree does not return, neither does the duplicate (the
\* left one is run first); Duplicate(Send, Send).run(p) is [p, p].
C4_DuplicateConcat ==
    (call.op = "run" /\ call.action.kind = "Duplicate") =>
        LET l == GenevaActionRun(call.action.left, call.pkt)
            r == GenevaActionRun(call.action.right, PacketClone(call.pkt))
        IN  /\ (l.kind = "Ok" /\ r.kind = "Ok") => call.result = Ok(l.val \o r.val)
            /\ l.kind # "Ok" => call.result = l
            /\ (l.kind = "Ok" /\ r.kind # "Ok") => call.result = r
            /\ (call.action.left = SendAction /\ call.action.right = SendAction)
                    => call.result = Ok(<<call.pkt, call.pkt>>)

\* A duplicate whose two sides both return packets has run.
C4_Witness ==
    /\ call.op = "run"
    /\ call.action = DuplicateActionNew(DuplicateActionNew(SendAction, SendAction), SendAction)
    /\ Len(AsSlice(call.pkt)) > 0
    /\ call.result = Ok(<<call.pkt, call.pkt, call.pkt>>)

\* C6: Fragment(proto, n, in_order, 0, left, right).run(p) returns the
\* results of left on the first fragment and of right on the second,
\* left-results first when in_order is true and right-results first when it
\* is false.
C6_FragmentOrdering ==
    (call.op = "run" /\ call.action.kind = "Fragment" /\ call.action.overlap = 0) =>
        /\ call.result.kind = "Ok"
        /\ \E first \in Packets, second \in Packets :
              LET l == GenevaActionRun(call.action.left_action, first)
                  r == GenevaActionRun(call.action.right_action, second)
              IN  /\ l.kind = "Ok"
                  /\ r.kind = "Ok"
                  /\ call.result.val = IF call.action.in_order
                                       THEN l.val \o r.val
                                       ELSE r.val \o l.val

\* C7: Send.run(p) returns Ok with exactly one packet, equal to p.
C7_SendIdentity ==
    (call.op = "run" /\ call.action.kind = "Send") =>
        /\ call.result.kind = "Ok"
        /\ Len(call.result.val) = 1
        /\ call.result.val[1] = call.pkt

\* Send has run on a packet that holds bytes.
C7_Witness ==
    /\ call.op = "run"
    /\ call.action = SendAction
    /\ Len(AsSlice(call.pkt)) > 0
    /\ call.result.kind = "Ok"

\* C8: Drop.run(p) returns Ok with no packet.
C8_DropAbsorbing ==
    (call.op = "run" /\ call.action.kind = "Drop") =>
        /\ call.result.kind = "Ok"
        /\ call.result.val = <<>>

\* Drop has run on a packet that holds bytes.
C8_Witness ==
    /\ call.op = "run"
    /\ call.action = DropAction
    /\ Len(AsSlice(call.pkt)) > 0
    /\ call.result.kind = "Ok"

\* C9: a Duplicate or Fragment node renders as its keyword (for Fragment
\* with {protocol:size:True|False}) followed by (L,R), L and R the renderings
\* of its children, the parenthesised list left out exactly when L and R are
\* both empty; Send renders as the empty string and Drop as drop.
C9_TwoChildSerialization ==
    (call.op = "to_string") =>
        LET a == call.action
            Args(L, R) == IF L = "" /\ R = "" THEN "" ELSE "(" \o L \o "," \o R \o ")"
        IN  /\ a.kind = "Send" => call.text = ""
            /\ a.kind = "Drop" => call.text = "drop"
            /\ a.kind = "Duplicate" =>
                  call.text = "duplicate"
                      \o Args(GenevaActionDisplay(a.left), GenevaActionDisplay(a.right))
            /\ a.kind = "Fragment" =>
                  call.text = "fragment{" \o ToString(a.protocol) \o ":"
                      \o ToString(a.fragment_size) \o ":"
                      \o (IF a.in_order THEN "True" ELSE "False") \o "}"
                      \o Args(GenevaActionDisplay(a.left_action),
                              GenevaActionDisplay(a.right_action))
            /\ a = DuplicateActionNew(SendAction, SendAction) => call.text = "duplicate"
            /\ a = DuplicateActionNew(DropAction, SendAction) => call.text = "duplicate(drop,)"
            /\ a = DuplicateActionNew(SendAction, DropAction) => call.text = "duplicate(,drop)"
            /\ a = DuplicateActionNew(DropAction, DropAction) => call.text = "duplicate(drop,drop)"
            /\ a = FragmentActionNew(6, 12, TRUE, 0, SendAction, SendAction)
                    => call.text = "fragment{6:12:True}"
            /\ a = FragmentActionNew(6, 12, FALSE, 0, SendAction, DropAction)
                    => call.text = "fragment{6:12:False}(,drop)"

\* A nested two-child node with an elided child has been rendered.
C9_Witness ==
    /\ call.op = "to_string"
    /\ call.action = DuplicateActionNew(
                        FragmentActionNew(6, 12, FALSE, 0, SendAction, DropAction),
                        SendAction)
    /\ call.text = "duplicate(fragment{6:12:False}(,drop),)"

-----------------------------------------------------------------------------
(* Triggers                                                                *)

TCPField ==
    {"SourcePort", "DestPort", "Seq", "Ack", "DataOffset", "Reserved", "Flags",
     "Window", "Checksum", "UrgentPointer", "Payload", "OptionEOL", "OptionNOP",
     "OptionMSS", "OptionWScale", "OptionSackOk", "OptionSack", "OptionTimestamp",
     "OptionAltChecksum", "OptionAltChecksumOpt", "OptionMD5Header", "OptionUTO"}

TCPFieldDisplay(f) ==
    CASE f = "SourcePort" -> "sport"
      [] f = "DestPort" -> "dport"
      [] f = "Seq" -> "seq"
      [] f = "Ack" -> "ack"
      [] f = "DataOffset" -> "dataofs"
      [] f = "Reserved" -> "reserved"
      [] f = "Flags" -> "flags"
      [] f = "Window" -> "window"
      [] f = "Checksum" -> "chksum"
      [] f = "UrgentPointer" -> "urgptr"
      [] f = "Payload" -> "load"
      [] f = "OptionEOL" -> "options-eol"
      [] f = "OptionNOP" -> "options-nop"
      [] f = "OptionMSS" -> "options-mss"
      [] f = "OptionWScale" -> "options-wscale"
      [] f = "OptionSackOk" -> "options-sackok"
      [] f = "OptionSack" -> "options-sack"
      [] f = "OptionTimestamp" -> "options-timestamp"
      [] f = "OptionAltChecksum" -> "options-altchksum"
      [] f = "OptionAltChecksumOpt" -> "options-altchksumopt"
      [] f = "OptionMD5Header" -> "options-md5header"
      [] f = "OptionUTO" -> "options-uto"

TCPFieldFromStr(s) ==
    CASE s = "sport" -> Ok("SourcePort")
      [] s = "dport" -> Ok("DestPort")
      [] s = "seq" -> Ok("Seq")
      [] s = "ack" -> Ok("Ack")
      [] s = "dataofs" -> Ok("DataOffset")
      [] s = "reserved" -> Ok("Reserved")
      [] s = "flags" -> Ok("Flags")
      [] s = "window" -> Ok("Window")
      [] s = "chksum" -> Ok("Checksum")
      [] s = "urgptr" -> Ok("UrgentPointer")
      [] s = "load" -> Ok("Payload")
      [] s = "options-eol" -> Ok("OptionEOL")
      [] s = "options-nop" -> Ok("OptionNOP")
      [] s = "options-mss" -> Ok("OptionMSS")
      [] s = "options-wscale" -> Ok("OptionWScale")
      [] s = "options-sackok" -> Ok("OptionSackOk")
      [] s = "options-sack" -> Ok("OptionSack")
      [] s = "options-timestamp" -> Ok("OptionTimestamp")
      [] s = "options-altchksum" -> Ok("OptionAltChecksum")
      [] s = "options-altchksumopt" -> Ok("OptionAltChecksumOpt")
      [] s = "options-md5header" -> Ok("OptionMD5Header")
      [] s = "options-uto" -> Ok("OptionUTO")
      [] OTHER -> Err(s)

IPField ==
    {"Version", "IHL", "TOS", "Length", "Identification", "Flags", "FragmentOffset",
     "TTL", "Protocol", "Checksum", "SourceAddress", "DestAddress", "Payload"}

IPFieldDisplay(f) ==
    CASE f = "Version" -> "version"
      [] f = "IHL" -> "ihl"
      [] f = "TOS" -> "tos"
      [] f = "Length" -> "len"
      [] f = "Identification" -> "id"
      [] f = "Flags" -> "flags"
      [] f = "FragmentOffset" -> "frag"
      [] f = "TTL" -> "ttl"
      [] f = "Protocol" -> "protocol"
      [] f = "Checksum" -> "chksum"
      [] f = "SourceAddress" -> "src"
      [] f = "DestAddress" -> "dst"
      [] f = "Payload" -> "load"

IPFieldFromStr(s) ==
    CASE s = "version" -> Ok("Version")
      [] s = "ihl" -> Ok("IHL")
      [] s = "TOS" -> Ok("TOS")
      [] s = "len" -> Ok("Length")
      [] s = "id" -> Ok("Identification")
      [] s = "flags" -> Ok("Flags")
      [] s = "frag" -> Ok("FragmentOffset")
      [] s = "ttl" -> Ok("TTL")
      [] s = "protocol" -> Ok("Protocol")
      [] s = "chksum" -> Ok("Checksum")
      [] s = "src" -> Ok("SourceAddress")
      [] s = "dst" -> Ok("DestAddress")
      [] s = "load" -> Ok("Payload")
      [] OTHER -> Err(s)

TCPTriggerNew(field, value, gas) ==
    Ok([variant |-> "TCP", field |-> field, value |-> value, gas |-> gas])

IPTriggerNew(field, value, gas, ip_field) ==
    [variant |-> "IP", field |-> field, value |-> value, gas |-> gas,
     ip_field |-> ip_field]

TriggerProtocol(t) == IF t.variant = "TCP" THEN "TCP" ELSE "IP"

TriggerField(t) ==
    IF t.variant = "TCP" THEN TCPFieldDisplay(t.field) ELSE IPFieldDisplay(t.field)

TriggerGas(t) == t.gas

TCPTriggerMatches(t, pkt) == Panic("not implemented")

IPTriggerMatches(t, pkt) == Panic("not implemented")

\* Ok(TRUE) or Ok(FALSE) when the call returns.
GenevaTriggerMatches(t, pkt) ==
    IF t.variant = "IP" THEN IPTriggerMatches(t, pkt) ELSE TCPTriggerMatches(t, pkt)

TCPTriggerDisplay(t) ==
    LET gas == IF t.gas > 0 THEN ":" \o ToString(t.gas) ELSE ""
    IN  "[" \o TriggerProtocol(t) \o ":" \o TCPFieldDisplay(t.field) \o ":" \o t.value
            \o gas \o "]"

IPTriggerDisplay(t) ==
    LET gas == IF t.gas > 0 THEN ":" \o ToString(t.gas) ELSE ""
    IN  "[" \o TriggerProtocol(t) \o ":" \o IPFieldDisplay(t.field) \o ":" \o t.value
            \o gas \o "]"

GenevaTriggerDisplay(t) ==
    IF t.variant = "IP" THEN IPTriggerDisplay(t) ELSE TCPTriggerDisplay(t)

-----------------------------------------------------------------------------
(* ActionTree: a trigger and the root of its action tree.                  *)

ActionTreeNew(t, root_action) == [trigger |-> t, root_action |-> root_action]

ActionTreeMatches(at, pkt) == GenevaTriggerMatches(at.trigger, pkt)

ActionTreeApply(at, pkt) == GenevaActionRun(at.root_action, pkt)

ActionTreeDisplay(at) ==
    GenevaTriggerDisplay(at.trigger) \o "-" \o GenevaActionDisplay(at.root_action) \o "-|"

-----------------------------------------------------------------------------
(* Strategy::apply                                                         *)

Direction == {"Inbound", "Outbound"}

\* One action tree's turn in apply: the tree's packets when its trigger
\* matches, the packet itself otherwise, appended to `packets`.
ApplyTree(at, pkt, packets) ==
    LET m == ActionTreeMatches(at, pkt)
    IN  IF m.kind # "Ok" THEN m
        ELSE IF m.val
             THEN LET pkts == ActionTreeApply(at, pkt)
                  IN  IF pkts.kind # "Ok" THEN pkts ELSE Ok(packets \o pkts.val)
             ELSE Ok(Append(packets, pkt))

\* The first loop of apply, over trees i..n, each on a clone of the packet.
RECURSIVE ApplyClones(_, _, _, _, _)
ApplyClones(forest, i, n, pkt, packets) ==
    IF i > n THEN Ok(packets)
    ELSE LET step == ApplyTree(forest[i], PacketClone(pkt), packets)
         IN  IF step.kind # "Ok" THEN step
             ELSE ApplyClones(forest, i + 1, n, pkt, step.val)

\* An apply that lacks the is_empty() early return.
StrategyApplyNoEmptyCheck(s, pkt, direction) ==
    LET forest == IF direction = "Inbound" THEN s.inbound ELSE s.outbound
    IN  IF ~forest.some THEN Ok(<<pkt>>)
        ELSE LET f == forest.forest
                 n == Len(f)
                 first == ApplyClones(f, 1, IF n = 0 THEN 0 ELSE n - 1, pkt, <<>>)
             IN  IF first.kind # "Ok" THEN first
                 ELSE IF n > 0 THEN ApplyTree(f[n], pkt, first.val)
                 ELSE Ok(first.val)

StrategyApply(s, pkt, direction) ==
    LET forest == IF direction = "Inbound" THEN s.inbound ELSE s.outbound
    IN  IF ~forest.some THEN Ok(<<pkt>>)
        ELSE IF Len(forest.forest) = 0 THEN Ok(<<pkt>>)
        ELSE LET f == forest.forest
                 n == Len(f)
                 first == ApplyClones(f, 1, IF n = 0 THEN 0 ELSE n - 1, pkt, <<>>)
             IN  IF first.kind # "Ok" THEN first
                 ELSE IF n > 0 THEN ApplyTree(f[n], pkt, first.val)
                 ELSE Ok(first.val)

-----------------------------------------------------------------------------
(* A caller builds a Strategy through its public fields and applies it to  *)
(* packets.                                                                *)

\* The action trees a caller puts into a forest.
RuleTrees ==
    {ActionTreeNew(t, a) :
        t \in {TCPTriggerNew("Flags", "SA", 0).val, IPTriggerNew("TTL", "64", 1, 0)},
        a \in {DropAction, DuplicateActionNew(SendAction, SendAction)}}

ForestOf(s, direction) == IF direction = "Inbound" THEN s.inbound ELSE s.outbound

WithForest(s, direction, forest) ==
    IF direction = "Inbound" THEN [s EXCEPT !.inbound = forest]
    ELSE [s EXCEPT !.outbound = forest]

InitStrategy ==
    /\ call = NoCall
    /\ strategy = StrategyDefault
    /\ trigger = <<>>
    /\ fired = 0

\* strategy.outbound = None, or = Some(vec![]) (likewise inbound).
SetForest(direction, some) ==
    /\ call.op = "none"
    /\ strategy' = WithForest(strategy, direction, IF some THEN Some(<<>>) ELSE None)
    /\ UNCHANGED <<call, trigger, fired>>

\* forest.push(action_tree) on a forest that is there.
PushTree(direction, at) ==
    /\ call.op = "none"
    /\ ForestOf(strategy, direction).some
    /\ Len(ForestOf(strategy, direction).forest) < MaxForest
    /\ strategy' = WithForest(strategy, direction,
                        Some(Append(ForestOf(strategy, direction).forest, at)))
    /\ UNCHANGED <<call, trigger, fired>>

\* An apply that uses up the forest it evaluated.
ApplyConsumesForest(pkt, direction) ==
    /\ call.op = "none"
    /\ call' = [op |-> "apply", pkt |-> pkt, direction |-> direction,
                result |-> StrategyApply(strategy, pkt, direction)]
    /\ strategy' = WithForest(strategy, direction, None)
    /\ UNCHANGED <<trigger, fired>>

\* let result = strategy.apply(pkt, direction)
Apply(pkt, direction) ==
    /\ call.op = "none"
    /\ call' = [op |-> "apply", pkt |-> pkt, direction |-> direction,
                result |-> StrategyApply(strategy, pkt, direction)]
    /\ UNCHANGED <<strategy, trigger, fired>>

NextStrategy ==
    \/ /\ call.op = "none"
       /\ \E d \in Direction, some \in BOOLEAN : SetForest(d, some)
    \/ /\ call.op = "none"
       /\ \E d \in Direction, at \in RuleTrees : PushTree(d, at)
    \/ /\ call.op = "none"
       /\ \E pkt \in Packets, d \in Direction : Apply(pkt, d)
    \/ Return

SpecStrategy == InitStrategy /\ [][NextStrategy]_vars

-----------------------------------------------------------------------------
(* Claims about Strategy::apply, checked under SpecStrategy.               *)

RECURSIVE Contributions(_, _, _, _)
\* The concatenation, in forest order, of one contribution per tree: the
\* tree's own run of p where matched[i], [p] where not.
Contributions(forest, matched, pkt, i) ==
    IF i > Len(forest) THEN <<>>
    ELSE (IF matched[i] THEN GenevaActionRun(forest[i].root_action, pkt).val ELSE <<pkt>>)
            \o Contributions(forest, matched, pkt, i + 1)

\* C2: apply(p, d) on a non-empty forest returns the concatenation, in
\* forest order, of one contribution per tree, root_action_i.run(p) if
\* trigger_i matches p and [p] otherwise.
C2_ForestConcatenation ==
    (call.op = "apply" /\ ForestOf(strategy, call.direction).some
        /\ Len(ForestOf(strategy, call.direction).forest) > 0) =>
        LET f == ForestOf(strategy, call.direction).forest
        IN  /\ call.result.kind = "Ok"
            /\ \E matched \in [1..Len(f) -> BOOLEAN] :
                  call.result.val = Contributions(f, matched, call.pkt, 1)

\* C3: when the forest of the direction is None or Some(empty), apply(p, d)
\* returns Ok([p]), p unchanged, whichever of the two it is.
C3_PassThroughDefault ==
    (call.op = "apply" /\ Len(ForestOf(strategy, call.direction).forest) = 0) =>
        call.result = Ok(<<call.pkt>>)

\* apply has run in a direction whose forest is Some(empty) while the other
\* direction holds rules.
C3_Witness ==
    /\ call.op = "apply"
    /\ call.direction = "Inbound"
    /\ strategy.inbound = Some(<<>>)
    /\ strategy.outbound.some
    /\ Len(strategy.outbound.forest) = 2
    /\ Len(AsSlice(call.pkt)) > 0
    /\ call.result = Ok(<<call.pkt>>)

-----------------------------------------------------------------------------
(* A caller constructs a trigger and calls matches() on it with packets.   *)

TriggerInputs ==
    {TCPTriggerNew(f, v, g).val :
        f \in {"Flags", "SourcePort", "Payload"}, v \in {"SA", "80"}, g \in 0..MaxGas}
    \cup
    {IPTriggerNew(f, v, g, 0) :
        f \in {"TTL", "SourceAddress"}, v \in {"64", "10.0.0.1"}, g \in 0..MaxGas}

InitTrigger ==
    /\ call = NoCall
    /\ strategy = StrategyDefault
    /\ trigger \in TriggerInputs
    /\ fired = 0

\* matches(&self, pkt): the trigger is borrowed immutably and holds no counter.
Matches(pkt) ==
    /\ call.op = "none"
    /\ LET result == GenevaTriggerMatches(trigger, pkt)
       IN  /\ call' = [op |-> "matches", pkt |-> pkt, result |-> result]
           /\ fired' = IF result.kind = "Ok" /\ result.val = TRUE THEN fired + 1 ELSE fired
    /\ UNCHANGED <<strategy, trigger>>

NextTrigger ==
    \/ /\ call.op = "none"
       /\ \E pkt \in Packets : Matches(pkt)
    \/ Return

SpecTrigger == InitTrigger /\ [][NextTrigger]_vars

\* C5: every matches() call on a trigger returns true or false, and on a
\* trigger with gas g > 0 no more than g calls ever return true (after g
\* true results every later call returns false).
C5_GasExhaustion ==
    /\ call.op = "matches" =>
          /\ call.result.kind = "Ok"
          /\ call.result.val \in BOOLEAN
    /\ TriggerGas(trigger) > 0 => fired <= TriggerGas(trigger)

-----------------------------------------------------------------------------
(* The parse tree GenevaParser::parse hands to parse_strategy: pest pairs, *)
(* each with its rule, the text it spans (as_str) and its inner pairs.     *)

Pair(rule, str, inner) == [rule |-> rule, str |-> str, inner |-> inner]

Token(rule, str) == Pair(rule, str, <<>>)

\* trigger := "[" protocol ":" field ":" value (":" gas)? "]"; gas = "" when
\* the text has no gas component.
TriggerPair(protocol, field, value, gas) ==
    Pair("trigger", "",
         <<Token("protocol", protocol), Token("field", field), Token("value", value)>>
            \o (IF gas = "" THEN <<>> ELSE <<Token("gas", gas)>>))

\* action := "" | "drop" | "duplicate(" action "," action ")" | fragment | tamper
SendPair == Pair("action", "", <<Token("send", "")>>)

DropPair == Pair("action", "", <<Token("drop", "drop")>>)

CommaPair == Token("comma", ",")

\* items: nothing (bare duplicate) or [action] comma [action].
DuplicatePair(items) == Pair("action", "", <<Pair("duplicate", "", items)>>)

FragmentPair == Pair("action", "", <<Token("fragment", "fragment{TCP:8:True}(drop,)")>>)

TamperPair == Pair("action", "", <<Token("tamper", "tamper{TCP:flags:replace:SA}(drop,)")>>)

ActionTreePair(t, a) == Pair("action_tree", "", <<t, a>>)

ForestPair(trees) == Pair("forest", "", trees)

SeparatorPair == Token("forest_separator", "\\/")

EOIPair == Token("EOI", "")

\* strategy := forest? "\/" forest? EOI; an empty side may or may not come
\* with a forest pair.
StrategyPair(out, in, out_pair, in_pair) ==
    Pair("strategy", "",
         (IF out # <<>> \/ out_pair THEN <<ForestPair(out)>> ELSE <<>>)
            \o <<SeparatorPair>>
            \o (IF in # <<>> \/ in_pair THEN <<ForestPair(in)>> ELSE <<>>)
            \o <<EOIPair>>)

\* The text a pair spans.
RECURSIVE PairText(_)
RECURSIVE PairsText(_, _)
PairsText(items, i) ==
    IF i > Len(items) THEN "" ELSE PairText(items[i]) \o PairsText(items, i + 1)

PairText(pair) ==
    CASE pair.rule = "trigger" ->
            "[" \o pair.inner[1].str \o ":" \o pair.inner[2].str \o ":" \o pair.inner[3].str
                \o (IF Len(pair.inner) > 3 THEN ":" \o pair.inner[4].str ELSE "") \o "]"
      [] pair.rule = "action" -> PairText(pair.inner[1])
      [] pair.rule = "duplicate" ->
            IF pair.inner = <<>> THEN "duplicate"
            ELSE "duplicate(" \o PairsText(pair.inner, 1) \o ")"
      [] pair.rule = "action_tree" ->
            PairText(pair.inner[1]) \o "-" \o PairText(pair.inner[2]) \o "-|"
      [] OTHER -> pair.str

\* The action trees of a strategy pair written before (after = FALSE) or
\* after (after = TRUE) the separator.
RECURSIVE TreesOfSide(_, _, _, _)
TreesOfSide(items, i, after, seen_separator) ==
    IF i > Len(items) THEN <<>>
    ELSE LET f == items[i]
         IN  IF f.rule = "forest_separator" THEN TreesOfSide(items, i + 1, after, TRUE)
             ELSE IF f.rule = "forest" /\ seen_separator = after
                  THEN f.inner \o TreesOfSide(items, i + 1, after, seen_separator)
                  ELSE TreesOfSide(items, i + 1, after, seen_separator)

RECURSIVE TreesText(_, _, _, _)
TreesText(trees, i, before, after) ==
    IF i > Len(trees) THEN ""
    ELSE before \o PairText(trees[i]) \o after \o TreesText(trees, i + 1, before, after)

\* The strategy text: each outbound tree followed by a space, the
\* separator, each inbound tree preceded by a space.
StrategyText(pair) ==
    TreesText(TreesOfSide(pair.inner, 1, FALSE, FALSE), 1, "", " ")
        \o "\\/"
        \o TreesText(TreesOfSide(pair.inner, 1, TRUE, FALSE), 1, " ", "")

-----------------------------------------------------------------------------
(* Display of a Strategy                                                   *)

RECURSIVE ForestDisplay(_, _, _, _)
ForestDisplay(forest, i, before, after) ==
    IF i > Len(forest) THEN ""
    ELSE before \o ActionTreeDisplay(forest[i]) \o after
            \o ForestDisplay(forest, i + 1, before, after)

StrategyDisplay(s) ==
    ForestDisplay(s.outbound.forest, 1, "", " ")
        \o "\\/"
        \o ForestDisplay(s.inbound.forest, 1, " ", "")

-----------------------------------------------------------------------------
(* parse_strategy and its helpers                                          *)

ToLowercase(s) ==
    CASE s = "TCP" -> "tcp"
      [] s = "IP" -> "ip"
      [] OTHER -> s

ParseTrigger(f) ==
    LET proto == f[1].str
        field == f[2].str
        value == f[3].str
    IN  CASE ToLowercase(proto) = "tcp" ->
                LET fld == TCPFieldFromStr(field)
                IN  IF fld.kind # "Ok" THEN fld
                    ELSE LET t == TCPTriggerNew(fld.val, value, 0)
                         IN  IF t.kind # "Ok" THEN t ELSE Ok(t.val)
          [] ToLowercase(proto) = "ip" ->
                LET fld == IPFieldFromStr(field)
                IN  IF fld.kind # "Ok" THEN fld
                    ELSE Ok(IPTriggerNew(fld.val, value, 0, 0))
          [] OTHER -> Panic("unreachable")

RECURSIVE ParseAction(_)

\* A loop that hands the action written before the comma to the right side
\* and the one written after it to the left side.
RECURSIVE ParseDuplicateArgsSwapped(_, _, _, _)
ParseDuplicateArgsSwapped(items, i, l_action, action) ==
    IF i > Len(items)
    THEN Ok(DuplicateActionNew(IF action.some THEN action.val ELSE SendAction, l_action))
    ELSE LET a == items[i]
         IN  CASE a.rule = "action" ->
                    LET parsed == ParseAction(a.inner)
                    IN  IF parsed.kind # "Ok" THEN parsed
                        ELSE ParseDuplicateArgsSwapped(items, i + 1, l_action,
                                                       [some |-> TRUE, val |-> parsed.val])
               [] a.rule = "comma" ->
                    ParseDuplicateArgsSwapped(items, i + 1,
                                              IF action.some THEN action.val ELSE l_action,
                                              [some |-> FALSE, val |-> SendAction])
               [] OTHER -> Panic("unreachable")

\* The loop over a duplicate's inner pairs; l_action and action as in the
\* code, action.some telling Some from None.
RECURSIVE ParseDuplicateArgs(_, _, _, _)
ParseDuplicateArgs(items, i, l_action, action) ==
    IF i > Len(items)
    THEN Ok(DuplicateActionNew(l_action, IF action.some THEN action.val ELSE SendAction))
    ELSE LET a == items[i]
         IN  CASE a.rule = "action" ->
                    LET parsed == ParseAction(a.inner)
                    IN  IF parsed.kind # "Ok" THEN parsed
                        ELSE ParseDuplicateArgs(items, i + 1, l_action,
                                                [some |-> TRUE, val |-> parsed.val])
               [] a.rule = "comma" ->
                    ParseDuplicateArgs(items, i + 1,
                                       IF action.some THEN action.val ELSE l_action,
                                       [some |-> FALSE, val |-> SendAction])
               [] OTHER -> Panic("unreachable")

ParseAction(f) ==
    LET inner_rules == f[1]
    IN  CASE inner_rules.rule = "send" -> Ok(SendAction)
          [] inner_rules.rule = "drop" -> Ok(DropAction)
          [] inner_rules.rule = "duplicate" ->
                ParseDuplicateArgs(inner_rules.inner, 1, SendAction,
                                   [some |-> FALSE, val |-> SendAction])
          [] OTHER -> Panic("unreachable")

\* The loop over an action tree's parts, then the two unwrap()s.
RECURSIVE ParseActionTreeParts(_, _, _, _)
ParseActionTreeParts(f, i, trig, action) ==
    IF i > Len(f)
    THEN IF trig.some /\ action.some THEN Ok(ActionTreeNew(trig.val, action.val))
         ELSE Panic("unwrap on None")
    ELSE LET part == f[i]
         IN  CASE part.rule = "trigger" ->
                    LET t == ParseTrigger(part.inner)
                    IN  IF t.kind # "Ok" THEN t
                        ELSE ParseActionTreeParts(f, i + 1, [some |-> TRUE, val |-> t.val],
                                                  action)
               [] part.rule = "action" ->
                    LET a == ParseAction(part.inner)
                    IN  IF a.kind # "Ok" THEN a
                        ELSE ParseActionTreeParts(f, i + 1, trig,
                                                  [some |-> TRUE, val |-> a.val])
               [] OTHER -> Panic("unreachable")

ParseActionTree(f) ==
    ParseActionTreeParts(f, 1, [some |-> FALSE, val |-> <<>>], [some |-> FALSE, val |-> <<>>])

\* for action_tree in f.into_inner() { forest.push(parse_action_tree(..)?) }
RECURSIVE ParseForestTrees(_, _, _)
ParseForestTrees(trees, i, forest) ==
    IF i > Len(trees) THEN Ok(forest)
    ELSE LET at == ParseActionTree(trees[i].inner)
         IN  IF at.kind # "Ok" THEN at
             ELSE ParseForestTrees(trees, i + 1, Append(forest, at.val))

\* A loop that assigns the trees before the separator to inbound and those
\* after it to outbound.
RECURSIVE ParseForestsSwapped(_, _, _, _)
ParseForestsSwapped(items, i, forest, strat) ==
    IF i > Len(items) THEN Ok(strat)
    ELSE LET f == items[i]
         IN  CASE f.rule = "forest" ->
                    LET r == ParseForestTrees(f.inner, 1, forest)
                    IN  IF r.kind # "Ok" THEN r
                        ELSE ParseForestsSwapped(items, i + 1, r.val, strat)
               [] f.rule = "forest_separator" ->
                    ParseForestsSwapped(items, i + 1, <<>>,
                        [strat EXCEPT !.inbound =
                            IF Len(forest) = 0 THEN None ELSE Some(forest)])
               [] f.rule = "EOI" ->
                    ParseForestsSwapped(items, i + 1, <<>>,
                        [strat EXCEPT !.outbound =
                            IF Len(forest) = 0 THEN None ELSE Some(forest)])
               [] OTHER -> Panic("unreachable")

\* The loop of parse_strategy over the strategy pair's inner pairs.
RECURSIVE ParseForests(_, _, _, _)
ParseForests(items, i, forest, strat) ==
    IF i > Len(items) THEN Ok(strat)
    ELSE LET f == items[i]
         IN  CASE f.rule = "forest" ->
                    LET r == ParseForestTrees(f.inner, 1, forest)
                    IN  IF r.kind # "Ok" THEN r
                        ELSE ParseForests(items, i + 1, r.val, strat)
               [] f.rule = "forest_separator" ->
                    ParseForests(items, i + 1, <<>>,
                        [strat EXCEPT !.outbound =
                            IF Len(forest) = 0 THEN None ELSE Some(forest)])
               [] f.rule = "EOI" ->
                    ParseForests(items, i + 1, <<>>,
                        [strat EXCEPT !.inbound =
                            IF Len(forest) = 0 THEN None ELSE Some(forest)])
               [] OTHER -> Panic("unreachable")

\* parse_strategy on a text the grammar accepts, given as its parse tree.
ParseStrategy(forests) == ParseForests(forests.inner, 1, <<>>, StrategyDefault)

-----------------------------------------------------------------------------
(* A caller parses strategy texts.                                         *)

ParseTriggers ==
    {TriggerPair(p, f, "SA", g) :
        p \in {"TCP", "IP"}, f \in {"flags", "tos", "nosuch"},
        g \in {""} \cup {ToString(n) : n \in 1..MaxGas}}

\* What stands on one side of a duplicate's comma when it is not itself a
\* composite action: nothing, an action spanning no text (send), or drop.
LeafArguments == {<<>>, <<SendPair>>, <<DropPair>>}

\* The action pairs with exactly n duplicate/fragment/tamper nodes.
RECURSIVE ParseActionsOfSize(_)
ParseActionsOfSize(n) ==
    LET Arguments(k) == IF k = 0 THEN LeafArguments
                        ELSE {<<a>> : a \in ParseActionsOfSize(k)}
    IN  IF n = 0 THEN {SendPair, DropPair}
        ELSE UNION {{DuplicatePair(l \o <<CommaPair>> \o r) :
                        l \in Arguments(i), r \in Arguments(n - 1 - i)} : i \in 0..(n - 1)}
             \cup (IF n = 1 THEN {DuplicatePair(<<>>), FragmentPair, TamperPair} ELSE {})

ParseActions == UNION {ParseActionsOfSize(n) : n \in 0..MaxParseNodes}

\* Texts of one action tree: every action under a plain trigger, every
\* trigger over drop.
SingleTrees ==
    {ActionTreePair(TriggerPair("TCP", "flags", "SA", ""), a) : a \in ParseActions}
    \cup {ActionTreePair(t, DropPair) : t \in ParseTriggers}

\* The action trees of texts with several of them.
SeveralTrees ==
    {ActionTreePair(t, a) :
        t \in {TriggerPair("TCP", "flags", "SA", ""), TriggerPair("IP", "ttl", "64", ""),
               TriggerPair("IP", "nosuch", "SA", "")},
        a \in {DropPair, DuplicatePair(<<CommaPair, DropPair>>)}}

RECURSIVE SeqsUpTo(_, _)
SeqsUpTo(S, n) ==
    IF n = 0 THEN {<<>>}
    ELSE LET shorter == SeqsUpTo(S, n - 1)
         IN  shorter \cup {Append(q, x) : q \in {t \in shorter : Len(t) = n - 1}, x \in S}

ParseInputs ==
    {StrategyPair(<<t>>, <<>>, TRUE, e) : t \in SingleTrees, e \in BOOLEAN}
    \cup {StrategyPair(<<>>, <<t>>, e, TRUE) : t \in SingleTrees, e \in BOOLEAN}
    \cup {StrategyPair(sides[1], sides[2], flags[1], flags[2]) :
            sides \in {q \in SeqsUpTo(SeveralTrees, MaxTrees) \X SeqsUpTo(SeveralTrees, MaxTrees) :
                        Len(q[1]) + Len(q[2]) <= MaxTrees},
            flags \in BOOLEAN \X BOOLEAN}

InitParse ==
    /\ call = NoCall
    /\ strategy = StrategyDefault
    /\ trigger = <<>>
    /\ fired = 0

\* let result = parse_strategy(text)
Parse(forests) ==
    /\ call.op = "none"
    /\ call' = [op |-> "parse_strategy", text |-> StrategyText(forests),
                forests |-> forests, result |-> ParseStrategy(forests)]
    /\ UNCHANGED <<strategy, trigger, fired>>

NextParse ==
    \/ /\ call.op = "none"
       /\ \E forests \in ParseInputs : Parse(forests)
    \/ Return

SpecParse == InitParse /\ [][NextParse]_vars

-----------------------------------------------------------------------------
(* Claims about parsing, checked under SpecParse.                          *)

\* The field names the Display impls write for a protocol.
FieldNames(protocol) ==
    IF protocol = "TCP" THEN {TCPFieldDisplay(f) : f \in TCPField}
    ELSE {IPFieldDisplay(f) : f \in IPField}

\* Every trigger of the text names a field of its protocol.
FieldsKnown(forests) ==
    \A after \in BOOLEAN :
        LET trees == TreesOfSide(forests.inner, 1, after, FALSE)
        IN  \A i \in 1..Len(trees) :
                LET t == trees[i].inner[1]
                IN  t.inner[2].str \in FieldNames(t.inner[1].str)

\* No duplicate of the action is written with an argument list that holds
\* nothing but the comma.
RECURSIVE NoEmptyArguments(_)
NoEmptyArguments(pair) ==
    CASE pair.rule = "action" -> NoEmptyArguments(pair.inner[1])
      [] pair.rule = "duplicate" ->
            \/ pair.inner = <<>>
            \/ /\ PairsText(pair.inner, 1) # ","
               /\ \A i \in 1..Len(pair.inner) : NoEmptyArguments(pair.inner[i])
      [] OTHER -> TRUE

\* The text is written the way the serializer writes: no empty argument
\* list in any of its actions.
CanonicalText(forests) ==
    \A after \in BOOLEAN :
        LET trees == TreesOfSide(forests.inner, 1, after, FALSE)
        IN  \A i \in 1..Len(trees) : NoEmptyArguments(trees[i].inner[2])

\* C1: for every valid strategy text s in canonical form (its triggers
\* naming fields of their protocol, with or without gas; its actions any
\* the grammar allows), parse_strategy(s) succeeds and renders back to s.
C1_RoundTrip ==
    (call.op = "parse_strategy" /\ FieldsKnown(call.forests) /\ CanonicalText(call.forests)) =>
        /\ call.result.kind = "Ok"
        /\ StrategyDisplay(call.result.val) = call.text

\* The parsed forest of a side of the text.
ExpectedForest(forests, after) ==
    LET trees == TreesOfSide(forests.inner, 1, after, FALSE)
    IN  IF Len(trees) = 0 THEN None
        ELSE Some([i \in 1..Len(trees) |-> ParseActionTree(trees[i].inner).val])

\* C10: when parse_strategy accepts a text, the action trees before the
\* separator are the outbound forest and those after it the inbound forest,
\* each in textual order; a side without action trees is None, never
\* Some(empty); the empty strategy has both directions None.
C10_ForestAssignment ==
    (call.op = "parse_strategy" /\ call.result.kind = "Ok") =>
        LET s == call.result.val
        IN  /\ s.outbound = ExpectedForest(call.forests, FALSE)
            /\ s.inbound = ExpectedForest(call.forests, TRUE)
            /\ s.outbound # Some(<<>>)
            /\ s.inbound # Some(<<>>)
            /\ call.text = "\\/" => s = StrategyDefault
            /\ call.text = "[TCP:flags:SA]-drop-| \\/" =>
                  /\ s.inbound = None
                  /\ s.outbound.some
                  /\ Len(s.outbound.forest) = 1
                  /\ TriggerProtocol(s.outbound.forest[1].trigger) = "TCP"
                  /\ TriggerField(s.outbound.forest[1].trigger) = "flags"
                  /\ s.outbound.forest[1].trigger.value = "SA"
                  /\ TriggerGas(s.outbound.forest[1].trigger) = 0
                  /\ s.outbound.forest[1].root_action = DropAction

\* A text with two different action trees before the separator and none
\* after it has been parsed.
C10_Witness ==
    /\ call.op = "parse_strategy"
    /\ call.text = "[IP:ttl:64]-duplicate(,drop)-| [TCP:flags:SA]-drop-| \\/"
    /\ call.result.kind = "Ok"
    /\ call.result.val.inbound = None
    /\ Len(call.result.val.outbound.forest) = 2
    /\ call.result.val.outbound.forest[1].trigger.variant = "IP"
    /\ call.result.val.outbound.forest[2].root_action = DropAction

\* The field texts of the triggers that name a field outside their
\* protocol's field set, in the order the text writes them.
UnknownFields(forests) ==
    LET trees == TreesOfSide(forests.inner, 1, FALSE, FALSE)
                    \o TreesOfSide(forests.inner, 1, TRUE, FALSE)
        fields == [i \in 1..Len(trees) |-> trees[i].inner[1].inner[2].str]
        protos == [i \in 1..Len(trees) |-> trees[i].inner[1].inner[1].str]
    IN  SelectSeq([i \in 1..Len(trees) |-> <<protos[i], fields[i]>>],
                  LAMBDA pf : pf[2] \notin FieldNames(pf[1]))

\* C11: parse_strategy always returns Ok or Err, never aborting; a text
\* with a trigger naming a field outside its protocol's field set gets
\* Err(Parse(that field text)); a failure carries no Strategy.
C11_ParseFailureTotal ==
    call.op = "parse_strategy" =>
        /\ call.result.kind \in {"Ok", "Err"}
        /\ UnknownFields(call.forests) # <<>> =>
                call.result = Err(UnknownFields(call.forests)[1][2])
        /\ call.result.kind # "Ok" => call.result.val = <<>>

\* The gas a trigger pair of a text is written with, "0" when it has none.
WrittenGas(t) == IF Len(t.inner) > 3 THEN t.inner[4].str ELSE "0"

\* C12: when parse_strategy accepts a text, every trigger written
\* [proto:field:value:g] is parsed to a trigger with gas() = g and every
\* trigger written without gas to one with gas() = 0; the parsed trigger
\* renders as [PROTO:field:value], with :g appended exactly when its gas g
\* is greater than 0.
C12_TriggerGas ==
    (call.op = "parse_strategy" /\ call.result.kind = "Ok") =>
        \A after \in BOOLEAN :
            LET trees == TreesOfSide(call.forests.inner, 1, after, FALSE)
                forest == IF after THEN call.result.val.inbound.forest
                          ELSE call.result.val.outbound.forest
            IN  /\ Len(forest) = Len(trees)
                /\ \A i \in 1..Len(trees) :
                      LET t == forest[i].trigger
                          g == TriggerGas(t)
                      IN  /\ ToString(g) = WrittenGas(trees[i].inner[1])
                          /\ GenevaTriggerDisplay(t) =
                                "[" \o TriggerProtocol(t) \o ":" \o TriggerField(t) \o ":"
                                    \o t.value
                                    \o (IF g > 0 THEN ":" \o ToString(g) ELSE "") \o "]"

-----------------------------------------------------------------------------
(* Claims about tamper nodes, checked under SpecAction.                    *)

\* C13: a Tamper node renders as tamper{protocol:field:mode}, with :value
\* after the mode of a replace, followed by (child,), child the rendering
\* of its single child; when the child is Send the argument list is left
\* out, parentheses included.
C13_TamperSerialization ==
    (call.op = "to_string" /\ call.action.kind = "Tamper") =>
        LET a == call.action
            head == "tamper{" \o a.protocol \o ":" \o a.field \o ":"
                        \o TamperModeDisplay(a.mode)
                        \o (IF a.mode = "Replace" THEN ":" \o a.new_value ELSE "") \o "}"
        IN  /\ a.action # SendAction =>
                  call.text = head \o "(" \o GenevaActionDisplay(a.action) \o ",)"
            /\ a.action = SendAction => call.text = head

-----------------------------------------------------------------------------
(* A caller holds one Strategy and evaluates it repeatedly, keeping the    *)
(* outcome of the first call to compare the later ones with.               *)

\* The strategies a caller has built, at most MaxForest action trees in all.
BuiltStrategies ==
    LET Forests == {None} \cup {Some(f) : f \in SeqsUpTo(RuleTrees, MaxForest)}
    IN  {[outbound |-> p[1], inbound |-> p[2]] :
            p \in {q \in Forests \X Forests :
                        Len(q[1].forest) + Len(q[2].forest) <= MaxForest}}

\* The root actions of the strategy's action trees.
RootActions(s) ==
    UNION {{f.forest[i].root_action : i \in 1..Len(f.forest)} :
                f \in {s.outbound, s.inbound}}

InitPurity ==
    /\ call = NoCall
    /\ strategy \in BuiltStrategies
    /\ trigger = <<>>
    /\ fired = 0

\* The first call of a series: call.earlier of every later call.
FirstCall == IF call.op \in {"apply", "run"} THEN call ELSE call.earlier

\* strategy.apply(pkt, direction) once more, the outcome of the first call
\* of the series still at hand.
ApplyAgain(pkt, direction) ==
    /\ call.op \in {"apply", "apply_again"}
    /\ call' = [op |-> "apply_again", pkt |-> pkt, direction |-> direction,
                result |-> StrategyApply(strategy, pkt, direction),
                earlier |-> FirstCall, between |-> call.op = "apply_again"]
    /\ UNCHANGED <<strategy, trigger, fired>>

\* action_tree.apply(pkt) on a tree of the strategy: root_action.run(pkt).
ApplyRoot(a, pkt) == RunAction(a, pkt)

\* root_action.run(pkt) once more.
RunAgain(a, pkt) ==
    /\ call.op \in {"run", "run_again"}
    /\ call' = [op |-> "run_again", action |-> a, pkt |-> pkt,
                result |-> GenevaActionRun(a, pkt),
                earlier |-> FirstCall, between |-> call.op = "run_again"]
    /\ UNCHANGED <<strategy, trigger, fired>>

NextPurity ==
    \/ /\ call.op = "none"
       /\ \E pkt \in Packets, d \in Direction : Apply(pkt, d)
    \/ /\ call.op \in {"apply", "apply_again"}
       /\ \E pkt \in Packets, d \in Direction : ApplyAgain(pkt, d)
    \/ /\ call.op = "none"
       /\ \E a \in RootActions(strategy), pkt \in Packets : ApplyRoot(a, pkt)
    \/ /\ call.op \in {"run", "run_again"}
       /\ \E a \in RootActions(strategy), pkt \in Packets : RunAgain(a, pkt)
    \/ Return

SpecPurity == InitPurity /\ [][NextPurity]_vars

\* What a step of an evaluation series must satisfy.
PureStep ==
    /\ strategy' = strategy
    /\ (/\ call'.op = "apply_again"
        /\ call'.pkt = call'.earlier.pkt
        /\ call'.direction = call'.earlier.direction) =>
            call'.result = call'.earlier.result
    /\ (/\ call'.op = "run_again"
        /\ call'.pkt = call'.earlier.pkt
        /\ call'.action = call'.earlier.action) =>
            call'.result = call'.earlier.result

C15_TamperContinuation ==
    (call.op = "run" /\ call.action.kind = "Tamper") =>
        \E mutated \in Packets :
            /\ Len(AsSlice(mutated)) = Len(AsSlice(call.pkt))
            /\ call.result = GenevaActionRun(call.action.action, mutated)

-----------------------------------------------------------------------------
(* A caller converts field names: IPField/TCPField to text (to_string) and *)
(* text to IPField/TCPField (from_str).                                    *)

FieldsOf(protocol) == IF protocol = "TCP" THEN TCPField ELSE IPField

FieldDisplay(protocol, f) ==
    IF protocol = "TCP" THEN TCPFieldDisplay(f) ELSE IPFieldDisplay(f)

FieldFromStr(protocol, s) ==
    IF protocol = "TCP" THEN TCPFieldFromStr(s) ELSE IPFieldFromStr(s)

\* The texts handed to from_str: every name either Display writes, and
\* some that neither writes.
FieldTexts ==
    {TCPFieldDisplay(f) : f \in TCPField} \cup {IPFieldDisplay(f) : f \in IPField}
        \cup {"TOS", "FLAGS", "nosuch"}

InitField ==
    /\ call = NoCall
    /\ strategy = StrategyDefault
    /\ trigger = <<>>
    /\ fired = 0

\* let text = field.to_string()
ToStringField(protocol, f) ==
    /\ call.op = "none"
    /\ call' = [op |-> "field_to_string", protocol |-> protocol, field |-> f,
                text |-> FieldDisplay(protocol, f)]
    /\ UNCHANGED <<strategy, trigger, fired>>

\* let result = IPField::from_str(s), or TCPField::from_str(s)
FromStrField(protocol, s) ==
    /\ call.op = "none"
    /\ call' = [op |-> "field_from_str", protocol |-> protocol, name |-> s,
                result |-> FieldFromStr(protocol, s)]
    /\ UNCHANGED <<strategy, trigger, fired>>

NextField ==
    \/ /\ call.op = "none"
       /\ \E protocol \in {"TCP", "IP"} :
            \E f \in FieldsOf(protocol) : ToStringField(protocol, f)
    \/ /\ call.op = "none"
       /\ \E protocol \in {"TCP", "IP"}, s \in FieldTexts : FromStrField(protocol, s)
    \/ Return

SpecField == InitField /\ [][NextField]_vars

\* C16: from_str on the name to_string writes for a variant f of IPField or
\* TCPField returns Ok(f), and no two different names are looked up to the
\* same variant.
C16_FieldRoundTrip ==
    (call.op = "field_from_str") =>
        /\ \A f \in FieldsOf(call.protocol) :
              FieldDisplay(call.protocol, f) = call.name => call.result = Ok(f)
        /\ call.result.kind = "Ok" =>
              \A s \in FieldTexts \ {call.name} :
                  FieldFromStr(call.protocol, s) # call.result

-----------------------------------------------------------------------------
(* Claims about the parsing of duplicate, checked under SpecParse.         *)

\* The action an action pair of send, drop and duplicate denotes: what is
\* written before the comma of a duplicate is its left child, what is
\* written after it its right child, and a child not written is Send.
RECURSIVE WrittenAction(_)
WrittenAction(pair) ==
    LET r == pair.inner[1]
    IN  CASE r.rule = "send" -> SendAction
          [] r.rule = "drop" -> DropAction
          [] r.rule = "duplicate" ->
                IF r.inner = <<>> THEN DuplicateActionNew(SendAction, SendAction)
                ELSE LET comma == CHOOSE i \in 1..Len(r.inner) : r.inner[i].rule = "comma"
                         before == SubSeq(r.inner, 1, comma - 1)
                         after == SubSeq(r.inner, comma + 1, Len(r.inner))
                     IN  DuplicateActionNew(
                            IF before = <<>> THEN SendAction ELSE WrittenAction(before[1]),
                            IF after = <<>> THEN SendAction ELSE WrittenAction(after[1]))

\* C17: when parse_strategy accepts a text, every duplicate(A,B) in it, at
\* any depth, is parsed to Duplicate(left = parse(A), right = parse(B)); an
\* action left out before the comma makes left Send, one left out after it
\* makes right Send, and duplicate without an argument list makes both Send.
C17_DuplicatePlacement ==
    (call.op = "parse_strategy" /\ call.result.kind = "Ok") =>
        /\ \A after \in BOOLEAN :
              LET trees == TreesOfSide(call.forests.inner, 1, after, FALSE)
                  forest == IF after THEN call.result.val.inbound.forest
                            ELSE call.result.val.outbound.forest
              IN  /\ Len(forest) = Len(trees)
                  /\ \A i \in 1..Len(trees) :
                        forest[i].root_action = WrittenAction(trees[i].inner[2])
        /\ LET Root(a) == call.result.val.outbound.forest[1].root_action = a
           IN  /\ call.text = "[TCP:flags:SA]-duplicate-| \\/" =>
                     Root(DuplicateActionNew(SendAction, SendAction))
               /\ call.text = "[TCP:flags:SA]-duplicate(drop,)-| \\/" =>
                     Root(DuplicateActionNew(DropAction, SendAction))
               /\ call.text = "[TCP:flags:SA]-duplicate(,drop)-| \\/" =>
                     Root(DuplicateActionNew(SendAction, DropAction))
               /\ call.text = "[TCP:flags:SA]-duplicate(duplicate(,drop),)-| \\/" =>
                     Root(DuplicateActionNew(DuplicateActionNew(SendAction, DropAction),
                                             SendAction))
               /\ call.text = "[TCP:flags:SA]-duplicate(,duplicate(drop,))-| \\/" =>
                     Root(DuplicateActionNew(SendAction,
                                             DuplicateActionNew(DropAction, SendAction)))

\* A text with a duplicate inside the left argument of a duplicate, each
\* with one argument left out, has been parsed.
C17_Witness ==
    /\ call.op = "parse_strategy"
    /\ call.text = "[TCP:flags:SA]-duplicate(duplicate(,drop),)-| \\/"
    /\ call.result.kind = "Ok"
    /\ call.result.val.outbound.forest[1].root_action =
            DuplicateActionNew(DuplicateActionNew(SendAction, DropAction), SendAction)

====
